---- MODULE Spec2Model ----
(***************************************************************************)
(* A model of src/biorhythm.py: the date parser, the biorhythm engine, the *)
(* report formatter, and the per-user conversation (the /start onboarding  *)
(* conversation plus the /today, /on and /help commands) as dispatched by  *)
(* the handlers registered in main().                                      *)
(*                                                                         *)
(* Texts are sequences of one-character strings; dates are records         *)
(* [year, month, day]; a float rounded to two decimals is a record         *)
(* [h, neg]: its value in hundredths and its sign bit (so that 0.0 and     *)
(* -0.0 are equal as numbers and differ when printed).                     *)
(***************************************************************************)
EXTENDS Integers, Sequences, FiniteSets, TLC

\* ------------------------------------------------------------------ text

\* Python's None (and the empty string, which is as falsy)
None == <<>>

Digits == <<"0", "1", "2", "3", "4", "5", "6", "7", "8", "9">>

NonZeroDigit == {"1", "2", "3", "4", "5", "6", "7", "8", "9"}

IsDigit(c) == \E i \in 1..10 : Digits[i] = c

DigitVal(c) == (CHOOSE i \in 1..10 : Digits[i] = c) - 1

IsSpace(c) == c \in {" ", "\t", "\n", "\r", "\f"}

\* s[i], or "" past the end of s
At(s, i) == IF i >= 1 /\ i <= Len(s) THEN s[i] ELSE ""

RECURSIVE lstrip(_)
lstrip(s) == IF s # <<>> /\ IsSpace(Head(s)) THEN lstrip(Tail(s)) ELSE s

RECURSIVE rstrip(_)
rstrip(s) ==
    IF s # <<>> /\ IsSpace(s[Len(s)]) THEN rstrip(SubSeq(s, 1, Len(s) - 1)) ELSE s

\* str.strip()
strip(s) == rstrip(lstrip(s))

\* int(s) of a run of digits, leading blanks skipped (int() ignores them)
RECURSIVE int(_)
int(s) ==
    IF s = <<>> THEN 0
    ELSE IF IsSpace(s[Len(s)]) THEN 0
    ELSE int(SubSeq(s, 1, Len(s) - 1)) * 10 + DigitVal(s[Len(s)])

\* the decimal digits of n >= 0, no padding
RECURSIVE str(_)
str(n) == IF n < 10 THEN <<Digits[n + 1]>> ELSE str(n \div 10) \o <<Digits[(n % 10) + 1]>>

\* "%0<w>d" % n
RECURSIVE zfill(_, _)
zfill(s, w) == IF Len(s) >= w THEN s ELSE zfill(<<"0">> \o s, w)

\* ------------------------------------------------------------------ dates

Date(y, m, d) == [year |-> y, month |-> m, day |-> d]

is_leap(year) == year % 4 = 0 /\ (year % 100 # 0 \/ year % 400 = 0)

days_in_month(year, month) ==
    IF month = 2 THEN (IF is_leap(year) THEN 29 ELSE 28)
    ELSE IF month \in {4, 6, 9, 11} THEN 30 ELSE 31

\* the days before January 1st of year
days_before_year(year) ==
    LET y == year - 1 IN y * 365 + y \div 4 - y \div 100 + y \div 400

RECURSIVE days_before_month(_, _)
days_before_month(year, month) ==
    IF month = 1 THEN 0
    ELSE days_before_month(year, month - 1) + days_in_month(year, month - 1)

\* date.toordinal(): 1 for 0001-01-01
toordinal(dt) ==
    days_before_year(dt.year) + days_before_month(dt.year, dt.month) + dt.day

\* (a - b).days
days_between(a, b) == toordinal(a) - toordinal(b)

\* what the date constructor accepts
valid_date(y, m, d) ==
    /\ y >= 1 /\ y <= 9999
    /\ m >= 1 /\ m <= 12
    /\ d >= 1 /\ d <= days_in_month(y, m)

\* the day after dt
next_day(dt) ==
    IF dt.day < days_in_month(dt.year, dt.month) THEN Date(dt.year, dt.month, dt.day + 1)
    ELSE IF dt.month < 12 THEN Date(dt.year, dt.month + 1, 1)
    ELSE Date(dt.year + 1, 1, 1)

\* date.isoformat(): "%04d-%02d-%02d"
isoformat(dt) ==
    zfill(str(dt.year), 4) \o <<"-">> \o zfill(str(dt.month), 2) \o <<"-">>
        \o zfill(str(dt.day), 2)

\* date.fromisoformat() of a YYYY-MM-DD string
fromisoformat(s) ==
    Date(int(SubSeq(s, 1, 4)), int(SubSeq(s, 6, 7)), int(SubSeq(s, 9, 10)))

\* date.strftime('%d.%m.%Y'); the C library's %Y does not pad a year below 1000
strftime_dmY(dt) ==
    zfill(str(dt.day), 2) \o <<".">> \o zfill(str(dt.month), 2) \o <<".">> \o str(dt.year)

\* ------------------------------------------------------------- strptime

\* The length matched at s[i] by the regular expression of a directive, 0 for no
\* match: %d is 3[0-1]|[1-2]\d|0[1-9]|[1-9]| [1-9], %m is 1[0-2]|0[1-9]|[1-9],
\* %Y is \d\d\d\d. The first alternative that matches is taken: a shorter one
\* would leave a digit where the format's next literal is expected.
directive_len(f, s, i) ==
    LET a == At(s, i)
        b == At(s, i + 1)
    IN  IF f = "d" THEN
            IF a = "3" /\ b \in {"0", "1"} THEN 2
            ELSE IF a \in {"1", "2"} /\ IsDigit(b) THEN 2
            ELSE IF a = "0" /\ b \in NonZeroDigit THEN 2
            ELSE IF a \in NonZeroDigit THEN 1
            ELSE IF a = " " /\ b \in NonZeroDigit THEN 2
            ELSE 0
        ELSE IF f = "m" THEN
            IF a = "1" /\ b \in {"0", "1", "2"} THEN 2
            ELSE IF a = "0" /\ b \in NonZeroDigit THEN 2
            ELSE IF a \in NonZeroDigit THEN 1
            ELSE 0
        ELSE
            IF \A k \in 0..3 : IsDigit(At(s, i + k)) THEN 4 ELSE 0

NoMatch == [ok |-> FALSE, end |-> 0, Y |-> 0, m |-> 0, d |-> 0]

\* format_regex.match(data_string): fmt is the format's directives ("d", "m",
\* "Y") and literal characters in order
RECURSIVE regex_match(_, _, _, _)
regex_match(s, i, fmt, acc) ==
    IF fmt = <<>> THEN [acc EXCEPT !.ok = TRUE, !.end = i]
    ELSE LET f == Head(fmt) IN
         IF f \in {"d", "m", "Y"} THEN
             LET n == directive_len(f, s, i) IN
             IF n = 0 THEN NoMatch
             ELSE regex_match(s, i + n, Tail(fmt),
                              [acc EXCEPT ![f] = int(SubSeq(s, i, i + n - 1))])
         ELSE IF At(s, i) = f THEN regex_match(s, i + 1, Tail(fmt), acc)
         ELSE NoMatch

NoDate == Date(0, 0, 0)

\* a ValueError, as a result
ValueError == [ok |-> FALSE, date |-> NoDate]

\* strptime without the test for unconverted data
strptime_result_ignores_rest(text, r) ==
    IF ~r.ok THEN ValueError
    ELSE IF ~valid_date(r.Y, r.m, r.d) THEN ValueError
    ELSE [ok |-> TRUE, date |-> Date(r.Y, r.m, r.d)]

\* what strptime makes of the match r of the whole format on text
strptime_result(text, r) ==
    IF ~r.ok THEN ValueError
    ELSE IF r.end # Len(text) + 1 THEN ValueError
    ELSE IF ~valid_date(r.Y, r.m, r.d) THEN ValueError
    ELSE [ok |-> TRUE, date |-> Date(r.Y, r.m, r.d)]

\* datetime.strptime(text, fmt).date(): ValueError when the text does not match,
\* when unconverted data remains, and when the fields name no calendar date
strptime(text, fmt) == strptime_result(text, regex_match(text, 1, fmt, NoMatch))

FMT_DMY == <<"d", ".", "m", ".", "Y">>

FMT_YMD == <<"Y", "-", "m", "-", "d">>

\* parse_date: ok = FALSE stands for None
parse_date(text) ==
    LET t == strip(text)
        r1 == strptime(t, FMT_DMY)
    IN  IF r1.ok THEN r1 ELSE strptime(t, FMT_YMD)

\* ------------------------------------------------------------------ engine

\* round(math.sin(2 * math.pi * days / period) * 100, 2) in hundredths, for
\* days 0, 1, ... (entry days + 1), as IEEE double arithmetic gives it; NegZero
\* are the days where the rounded value is -0.0 (sin of a multiple of 2 pi is a
\* tiny negative number)
SinTable23 ==
    <<
       0, 2698, 5196, 7308, 8879, 9791, 9977, 9423, 8170, 6311, 3984, 1362, -1362,
       -3984, -6311, -8170, -9423, -9977, -9791, -8879, -7308, -5196, -2698, 0, 2698,
       5196, 7308, 8879, 9791, 9977, 9423, 8170, 6311, 3984, 1362, -1362, -3984, -6311,
       -8170, -9423, -9977, -9791, -8879, -7308, -5196, -2698, 0, 2698, 5196, 7308,
       8879, 9791, 9977, 9423, 8170, 6311, 3984, 1362, -1362, -3984, -6311, -8170,
       -9423, -9977, -9791, -8879, -7308, -5196, -2698, 0, 2698, 5196, 7308, 8879,
       9791, 9977, 9423, 8170, 6311, 3984, 1362, -1362, -3984, -6311, -8170, -9423,
       -9977, -9791, -8879, -7308, -5196, -2698, 0, 2698, 5196, 7308, 8879, 9791, 9977,
       9423, 8170
    >>

NegZero23 == {23, 46, 69, 92}

SinTable28 ==
    <<
       0, 2225, 4339, 6235, 7818, 9010, 9749, 10000, 9749, 9010, 7818, 6235, 4339,
       2225, 0, -2225, -4339, -6235, -7818, -9010, -9749, -10000, -9749, -9010, -7818,
       -6235, -4339, -2225, 0, 2225, 4339, 6235, 7818, 9010, 9749, 10000, 9749, 9010,
       7818, 6235, 4339, 2225, 0, -2225, -4339, -6235, -7818, -9010, -9749, -10000,
       -9749, -9010, -7818, -6235, -4339, -2225, 0, 2225, 4339, 6235, 7818, 9010, 9749,
       10000, 9749, 9010, 7818, 6235, 4339, 2225, 0, -2225, -4339, -6235, -7818, -9010,
       -9749, -10000, -9749, -9010, -7818, -6235, -4339, -2225, 0, 2225, 4339, 6235,
       7818, 9010, 9749, 10000, 9749, 9010, 7818, 6235, 4339, 2225, 0, -2225, -4339
    >>

NegZero28 == {28, 56, 84}

SinTable33 ==
    <<
       0, 1893, 3717, 5406, 6901, 8146, 9096, 9718, 9989, 9898, 9450, 8660, 7557, 6182,
       4582, 2817, 951, -951, -2817, -4582, -6182, -7557, -8660, -9450, -9898, -9989,
       -9718, -9096, -8146, -6901, -5406, -3717, -1893, 0, 1893, 3717, 5406, 6901,
       8146, 9096, 9718, 9989, 9898, 9450, 8660, 7557, 6182, 4582, 2817, 951, -951,
       -2817, -4582, -6182, -7557, -8660, -9450, -9898, -9989, -9718, -9096, -8146,
       -6901, -5406, -3717, -1893, 0, 1893, 3717, 5406, 6901, 8146, 9096, 9718, 9989,
       9898, 9450, 8660, 7557, 6182, 4582, 2817, 951, -951, -2817, -4582, -6182, -7557,
       -8660, -9450, -9898, -9989, -9718, -9096, -8146, -6901, -5406, -3717, -1893, 0,
       1893
    >>

NegZero33 == {33, 66, 99}

Float(h, neg) == [h |-> h, neg |-> neg]

\* rounded_sin with the day of birth counted as day 1
rounded_sin_from_day_one(days, period) ==
    LET tab == IF period = 23 THEN SinTable23
               ELSE IF period = 28 THEN SinTable28 ELSE SinTable33
        nz == IF period = 23 THEN NegZero23
              ELSE IF period = 28 THEN NegZero28 ELSE NegZero33
        h == tab[days + 2]
    IN  Float(h, h < 0 \/ (days + 1) \in nz)

rounded_sin(days, period) ==
    LET tab == IF period = 23 THEN SinTable23
               ELSE IF period = 28 THEN SinTable28 ELSE SinTable33
        nz == IF period = 23 THEN NegZero23
              ELSE IF period = 28 THEN NegZero28 ELSE NegZero33
        h == tab[days + 1]
    IN  Float(h, h < 0 \/ days \in nz)

\* the ValueError raised at line 34, as a result
RangeError == [ok |-> FALSE, physical |-> Float(0, FALSE), emotional |-> Float(0, FALSE),
               intellectual |-> Float(0, FALSE)]

\* calc_biorhythm with the range test off by one: the day of birth is refused
calc_biorhythm_rejects_day_zero(birth_date, target_date, today) ==
    LET target == IF target_date = None THEN today ELSE target_date
        days == days_between(target, birth_date)
    IN  IF days <= 0 THEN RangeError
        ELSE [ok |-> TRUE,
              physical |-> rounded_sin(days, 23),
              emotional |-> rounded_sin(days, 28),
              intellectual |-> rounded_sin(days, 33)]

\* calc_biorhythm with the physical cycle computed from the emotional period
calc_biorhythm_mixed_cycles(birth_date, target_date, today) ==
    LET target == IF target_date = None THEN today ELSE target_date
        days == days_between(target, birth_date)
    IN  IF days < 0 THEN RangeError
        ELSE [ok |-> TRUE,
              physical |-> rounded_sin(days, 28),
              emotional |-> rounded_sin(days, 28),
              intellectual |-> rounded_sin(days, 33)]

\* calc_biorhythm(birth_date, target_date): target_date None takes today, the
\* value date.today() returns at line 30
calc_biorhythm(birth_date, target_date, today) ==
    LET target == IF target_date = None THEN today ELSE target_date
        days == days_between(target, birth_date)
    IN  IF days < 0 THEN RangeError
        ELSE [ok |-> TRUE,
              physical |-> rounded_sin(days, 23),
              emotional |-> rounded_sin(days, 28),
              intellectual |-> rounded_sin(days, 33)]

\* repr() of a float that has at most two decimals: "26.98", "81.7", "100.0", "-0.0"
float_repr(v) ==
    LET a == IF v.h < 0 THEN 0 - v.h ELSE v.h
        frac == a % 100
    IN  (IF v.neg THEN <<"-">> ELSE <<>>) \o str(a \div 100) \o <<".">>
            \o (IF frac % 10 = 0 THEN str(frac \div 10) ELSE zfill(str(frac), 2))

\* sign(v) of format_bio_text
sign(v) == IF v.h > 0 THEN <<"+">> \o float_repr(v) ELSE float_repr(v)

\* format_bio_text(target_date, bio): the report, by its variable parts
format_bio_text(target_date, bio) ==
    [header |-> strftime_dmY(target_date),
     physical |-> sign(bio.physical),
     emotional |-> sign(bio.emotional),
     intellectual |-> sign(bio.intellectual)]

\* ------------------------------------------------------------------ bounds

\* how many days the clock may advance after the first update
MaxTicks == 2

\* ------------------------------------------------------------------ inputs

Users == {"u1", "u2"}

\* date.today() when the bot starts
Today0 == Date(2024, 2, 28)

\* update.effective_user.first_name: empty, or a name
FirstNames == {None, <<"A", "n", "n">>}

\* message texts that are no commands, as MessageHandler(filters.TEXT & ~filters.COMMAND)
\* lets through
Texts ==
    { <<"0", "5", ".", "0", "1", ".", "2", "0", "2", "4">>,
      <<"2", "0", "2", "4", "-", "0", "2", "-", "2", "8">>,
      <<"0", "1", ".", "0", "3", ".", "2", "0", "2", "4">>,
      <<"3", "1", ".", "0", "2", ".", "2", "0", "2", "4">>,
      <<"n", "o", "t", " ", "a", " ", "d", "a", "t", "e">> }

\* context.args of /on: the words after the command
ArgLists ==
    { <<>>,
      << <<"2", "0", "2", "4", "-", "0", "2", "-", "0", "7">> >>,
      << <<"2", "0", "2", "4", "-", "2", "-", "2", "8">> >>,
      << <<"2", "0", "2", "4", "-", "0", "1", "-", "0", "5">> >>,
      << <<"2", "0", "2", "4", "-", "0", "1", "-", "0", "4">> >>,
      << <<"0", "7", ".", "0", "2", ".", "2", "0", "2", "4">> >> }

\* an inbound update: its kind, the message text (FreeText), context.args (/on),
\* and the sender's first name
Update(type, text, args, first_name) ==
    [type |-> type, text |-> text, args |-> args, first_name |-> first_name]

\* ------------------------------------------------------------------ state

VARIABLES
    conversations,  \* ConversationHandler's store: user |-> state, no entry for None
    user_data,      \* application.user_data: user |-> dict
    clock,          \* the date date.today() returns now
    onboarded,      \* history: the users whose stored "dob" was stored by a set_dob that returned END
    last,           \* history: the update handled last, and what came of it
    probe           \* the function applied last on its own, its input and its output

vars == <<conversations, user_data, clock, onboarded, last, probe>>

ASK_DOB == 1

END == -1

\* ------------------------------------------------------------------ dicts

EmptyDict == [k \in {} |-> None]

\* d.get(k)
dict_get(d, k) == IF k \in DOMAIN d THEN d[k] ELSE None

\* d[k] = v
dict_set(d, k, v) == [x \in DOMAIN d \cup {k} |-> IF x = k THEN v ELSE d[x]]

\* del d[k]
dict_del(d, k) == [x \in DOMAIN d \ {k} |-> d[x]]

\* ------------------------------------------------------------------ handlers

\* What a handler did: ret is <<the returned state>> (None when it returns nothing
\* or raises), user_data the dict as it leaves it, replies the texts it sent with
\* reply_text, raised whether an exception left it, reads the values date.today()
\* returned to it, in order.
Result(ret, ud, replies, raised, reads) ==
    [ret |-> ret, user_data |-> ud, replies |-> replies, raised |-> raised,
     reads |-> reads]

\* the name the greeting falls back to when the sender has no first name
Friend == <<"f", "r", "i", "e", "n", "d">>

\* start that begins the onboarding with an empty user_data
start_clears_dob(update, ud) ==
    Result(<<ASK_DOB>>, EmptyDict,
           << [kind |-> "start",
               name |-> IF update.first_name # None THEN update.first_name ELSE Friend] >>,
           FALSE, <<>>)

\* start: the greeting, the disclaimer and the prompt for the birth date
start(update, ud) ==
    Result(<<ASK_DOB>>, ud,
           << [kind |-> "start",
               name |-> IF update.first_name # None THEN update.first_name ELSE Friend] >>,
           FALSE, <<>>)

\* set_dob that ends the conversation after the retry prompt
set_dob_retry_ends(update, ud, t1, t2) ==
    LET dob == parse_date(update.text) IN
    IF ~dob.ok THEN Result(<<END>>, ud, << [kind |-> "retry"] >>, FALSE, <<>>)
    ELSE LET ud2 == dict_set(ud, "dob", isoformat(dob.date))
             bio_today == calc_biorhythm(dob.date, None, t1)
         IN  IF ~bio_today.ok THEN Result(None, ud2, <<>>, TRUE, <<t1>>)
             ELSE Result(<<END>>, ud2,
                         << [kind |-> "dob_saved",
                             dob |-> strftime_dmY(dob.date),
                             bio |-> format_bio_text(t2, bio_today)] >>,
                         FALSE, <<t1, t2>>)

\* set_dob that stores the text before it has parsed it
set_dob_stores_text(update, ud, t1, t2) ==
    LET dob == parse_date(update.text) IN
    IF ~dob.ok THEN Result(<<ASK_DOB>>, dict_set(ud, "dob", update.text),
                           << [kind |-> "retry"] >>, FALSE, <<>>)
    ELSE LET ud2 == dict_set(ud, "dob", isoformat(dob.date))
             bio_today == calc_biorhythm(dob.date, None, t1)
         IN  IF ~bio_today.ok THEN Result(None, ud2, <<>>, TRUE, <<t1>>)
             ELSE Result(<<END>>, ud2,
                         << [kind |-> "dob_saved",
                             dob |-> strftime_dmY(dob.date),
                             bio |-> format_bio_text(t2, bio_today)] >>,
                         FALSE, <<t1, t2>>)

\* set_dob: t1 is date.today() inside calc_biorhythm (line 86), t2 date.today() at
\* line 96
set_dob(update, ud, t1, t2) ==
    LET dob == parse_date(update.text) IN
    IF ~dob.ok THEN Result(<<ASK_DOB>>, ud, << [kind |-> "retry"] >>, FALSE, <<>>)
    ELSE LET ud2 == dict_set(ud, "dob", isoformat(dob.date))
             bio_today == calc_biorhythm(dob.date, None, t1)
         IN  IF ~bio_today.ok THEN Result(None, ud2, <<>>, TRUE, <<t1>>)
             ELSE Result(<<END>>, ud2,
                         << [kind |-> "dob_saved",
                             dob |-> strftime_dmY(dob.date),
                             bio |-> format_bio_text(t2, bio_today)] >>,
                         FALSE, <<t1, t2>>)

\* today that keeps its report in user_data and sends the kept one again
today_cached(update, ud, t1, t2) ==
    LET dob_iso == dict_get(ud, "dob") IN
    IF dob_iso = None THEN Result(None, ud, << [kind |-> "need_dob"] >>, FALSE, <<>>)
    ELSE IF "report" \in DOMAIN ud THEN Result(None, ud, << ud["report"] >>, FALSE, <<>>)
    ELSE LET dob == fromisoformat(dob_iso)
             bio == calc_biorhythm(dob, None, t1)
         IN  IF ~bio.ok THEN Result(None, ud, <<>>, TRUE, <<t1>>)
             ELSE Result(None,
                         dict_set(ud, "report",
                                  [kind |-> "bio", bio |-> format_bio_text(t2, bio)]),
                         << [kind |-> "bio", bio |-> format_bio_text(t2, bio)] >>,
                         FALSE, <<t1, t2>>)

\* today: t1 is date.today() inside calc_biorhythm (line 111), t2 date.today() at
\* line 112
today(update, ud, t1, t2) ==
    LET dob_iso == dict_get(ud, "dob") IN
    IF dob_iso = None THEN Result(None, ud, << [kind |-> "need_dob"] >>, FALSE, <<>>)
    ELSE LET dob == fromisoformat(dob_iso)
             bio == calc_biorhythm(dob, None, t1)
         IN  IF ~bio.ok THEN Result(None, ud, <<>>, TRUE, <<t1>>)
             ELSE Result(None, ud,
                         << [kind |-> "bio", bio |-> format_bio_text(t2, bio)] >>,
                         FALSE, <<t1, t2>>)

\* on_date that looks at its argument before it looks for the birth date
on_date_args_first(update, ud) ==
    LET dob_iso == dict_get(ud, "dob") IN
    IF update.args = <<>> THEN Result(None, ud, << [kind |-> "usage"] >>, FALSE, <<>>)
    ELSE LET target == strptime(update.args[1], FMT_YMD) IN
         IF ~target.ok THEN Result(None, ud, << [kind |-> "bad_date"] >>, FALSE, <<>>)
         ELSE IF dob_iso = None THEN
             Result(None, ud, << [kind |-> "need_dob"] >>, FALSE, <<>>)
         ELSE LET dob == fromisoformat(dob_iso)
                  bio == calc_biorhythm(dob, target.date, NoDate)
              IN  IF ~bio.ok THEN
                      Result(None, ud, << [kind |-> "before_birth"] >>, FALSE, <<>>)
                  ELSE Result(None, ud,
                              << [kind |-> "bio",
                                  bio |-> format_bio_text(target.date, bio)] >>,
                              FALSE, <<>>)

\* on_date
on_date(update, ud) ==
    LET dob_iso == dict_get(ud, "dob") IN
    IF dob_iso = None THEN Result(None, ud, << [kind |-> "need_dob"] >>, FALSE, <<>>)
    ELSE IF update.args = <<>> THEN Result(None, ud, << [kind |-> "usage"] >>, FALSE, <<>>)
    ELSE LET target == strptime(update.args[1], FMT_YMD) IN
         IF ~target.ok THEN Result(None, ud, << [kind |-> "bad_date"] >>, FALSE, <<>>)
         ELSE LET dob == fromisoformat(dob_iso)
                  bio == calc_biorhythm(dob, target.date, NoDate)
              IN  IF ~bio.ok THEN
                      Result(None, ud, << [kind |-> "before_birth"] >>, FALSE, <<>>)
                  ELSE Result(None, ud,
                              << [kind |-> "bio",
                                  bio |-> format_bio_text(target.date, bio)] >>,
                              FALSE, <<>>)

\* help_cmd
help_cmd(update, ud) == Result(None, ud, << [kind |-> "help"] >>, FALSE, <<>>)

\* cancel
cancel(update, ud) == Result(<<END>>, ud, << [kind |-> "cancelled"] >>, FALSE, <<>>)

\* ------------------------------------------------------------------ dispatch

\* a conversation handler that keeps every update it has no handler for while a
\* conversation is on, instead of passing it on
conv_handler_swallows(convs, key, update) ==
    IF key \notin DOMAIN convs THEN
        (IF update.type = "start" THEN "start" ELSE "none")
    ELSE IF convs[key] = ASK_DOB /\ update.type = "text" THEN "set_dob"
    ELSE IF update.type = "cancel" THEN "cancel"
    ELSE "swallowed"

\* a conversation handler whose text handler is an entry point as well
conv_handler_text_entry(convs, key, update) ==
    IF key \notin DOMAIN convs THEN
        (IF update.type = "start" THEN "start"
         ELSE IF update.type = "text" THEN "set_dob" ELSE "none")
    ELSE IF convs[key] = ASK_DOB /\ update.type = "text" THEN "set_dob"
    ELSE IF update.type = "cancel" THEN "cancel"
    ELSE "none"

\* ConversationHandler.check_update for conv_handler (allow_reentry is off): with
\* no conversation only the entry point /start is looked at; inside one, the
\* state's handlers and then the fallbacks. "none": the handler passes the update on.
conv_handler(convs, key, update) ==
    IF key \notin DOMAIN convs THEN
        (IF update.type = "start" THEN "start" ELSE "none")
    ELSE IF convs[key] = ASK_DOB /\ update.type = "text" THEN "set_dob"
    ELSE IF update.type = "cancel" THEN "cancel"
    ELSE "none"

\* the CommandHandlers added after conv_handler
command_handler(update) ==
    IF update.type = "today" THEN "today"
    ELSE IF update.type = "on" THEN "on_date"
    ELSE IF update.type = "help" THEN "help_cmd"
    ELSE "none"

\* Application.process_update: the first handler of the group that accepts the
\* update gets it; "none" when no handler does and the update is dropped
handler_for(convs, key, update) ==
    IF conv_handler(convs, key, update) # "none" THEN conv_handler(convs, key, update)
    ELSE command_handler(update)

\* the callback named h, run on the update
run_handler(h, update, ud, t1, t2) ==
    IF h = "start" THEN start(update, ud)
    ELSE IF h = "set_dob" THEN set_dob(update, ud, t1, t2)
    ELSE IF h = "cancel" THEN cancel(update, ud)
    ELSE IF h = "today" THEN today(update, ud, t1, t2)
    ELSE IF h = "on_date" THEN on_date(update, ud)
    ELSE IF h = "help_cmd" THEN help_cmd(update, ud)
    ELSE Result(None, ud, <<>>, FALSE, <<>>)

\* a store with one conversation for everybody instead of one for each user
update_state_shared(convs, key, ret) ==
    IF ret = None THEN convs
    ELSE IF ret[1] = END THEN EmptyDict
    ELSE [k \in Users |-> ret[1]]

\* ConversationHandler._update_state: END drops the conversation, None keeps the
\* state, another value is stored
update_state(convs, key, ret) ==
    IF ret = None THEN convs
    ELSE IF ret[1] = END THEN dict_del(convs, key)
    ELSE dict_set(convs, key, ret[1])

\* the conversations after handler h is through: a callback of conv_handler
\* that raises leaves the state as it was
conversations_after(convs, key, h, res) ==
    IF h \in {"start", "set_dob", "cancel"} /\ ~res.raised
    THEN update_state(convs, key, res.ret)
    ELSE convs

\* the dates date.today() may return from date d on
RECURSIVE dates_from(_)
dates_from(d) ==
    IF days_between(d, Today0) >= MaxTicks THEN {d}
    ELSE {d} \cup dates_from(next_day(d))

\* the user's entry of the conversation store, if any
conv_of(convs, key) == [k \in DOMAIN convs \cap {key} |-> convs[k]]

NoUpdate == Update("none", None, <<>>, None)

\* no function applied on its own
Idle == [kind |-> "idle"]

Init ==
    /\ conversations = EmptyDict
    /\ user_data = [u \in Users |-> EmptyDict]
    /\ clock = Today0
    /\ onboarded = {}
    /\ last = [user |-> "", update |-> NoUpdate, handler |-> "none",
               pre_conv |-> EmptyDict, pre_data |-> EmptyDict, pre_onboarded |-> FALSE,
               repeat |-> FALSE,
               result |-> Result(None, EmptyDict, <<>>, FALSE, <<>>)]
    /\ probe = Idle

\* the handlers that call date.today()
ClockReaders == {"set_dob", "today"}

\* the values of a sequence
Range(q) == {q[i] : i \in DOMAIN q}

\* the session of a user as the conversation sees it: the conversation state, if
\* any, and the stored birth date, if any
Session(conv, ud) == <<Range(conv), dict_get(ud, "dob")>>

\* history: whether an update with this session, this content and these date
\* reads repeats the input of the update handled before it (l), the date being
\* the same throughout both
SameInput(l, update, conv, ud, reads) ==
    /\ l.update = update
    /\ Session(l.pre_conv, l.pre_data) = Session(conv, ud)
    /\ Cardinality(Range(l.result.reads) \cup Range(reads)) <= 1

\* the state after handler h has run on u's update with result res
Handled(u, update, h, res) ==
    /\ conversations' = conversations_after(conversations, u, h, res)
    /\ user_data' = [user_data EXCEPT ![u] = res.user_data]
    /\ clock' = IF res.reads = <<>> THEN clock ELSE res.reads[Len(res.reads)]
    /\ onboarded' = IF h = "set_dob" /\ res.ret = <<END>> THEN onboarded \cup {u}
                    ELSE IF h = "set_dob" /\ res.raised THEN onboarded \ {u}
                    ELSE onboarded
    /\ last' = [user |-> u, update |-> update, handler |-> h,
                pre_conv |-> conv_of(conversations, u),
                pre_data |-> user_data[u],
                pre_onboarded |-> u \in onboarded,
                repeat |-> SameInput(last, update, conv_of(conversations, u),
                                     user_data[u], res.reads),
                result |-> res]
    /\ UNCHANGED probe

\* One update of user u, from its arrival to the end of its handler. The clock
\* may advance while the handler runs: t1 and t2 are what its first and second
\* date.today() return.
Handle(u, update) ==
    \E t1 \in (IF handler_for(conversations, u, update) \in ClockReaders
               THEN dates_from(clock) ELSE {clock}) :
    \E t2 \in (IF handler_for(conversations, u, update) \in ClockReaders
               THEN dates_from(t1) ELSE {t1}) :
        Handled(u, update, handler_for(conversations, u, update),
                run_handler(handler_for(conversations, u, update), update,
                            user_data[u], t1, t2))

\* /start from user u; the greeting names the sender
OnboardingTrigger(u) ==
    /\ u \in Users
    /\ \E n \in FirstNames : Handle(u, Update("start", None, <<>>, n))

\* a text message that is no command
FreeText(u) ==
    /\ u \in Users
    /\ \E t \in Texts : Handle(u, Update("text", t, <<>>, None))

\* /today
TodayQuery(u) ==
    /\ u \in Users
    /\ Handle(u, Update("today", None, <<>>, None))

\* /on with its arguments
OnDateQuery(u) ==
    /\ u \in Users
    /\ \E a \in ArgLists : Handle(u, Update("on", None, a, None))

\* /help
HelpQuery(u) ==
    /\ u \in Users
    /\ Handle(u, Update("help", None, <<>>, None))

\* /cancel
CancelTrigger(u) ==
    /\ u \in Users
    /\ Handle(u, Update("cancel", None, <<>>, None))

\* midnight
Tick ==
    /\ days_between(clock, Today0) < MaxTicks
    /\ clock' = next_day(clock)
    /\ UNCHANGED <<conversations, user_data, onboarded, last, probe>>

Next ==
    \/ \E u \in Users : OnboardingTrigger(u)
    \/ \E u \in Users : FreeText(u)
    \/ \E u \in Users : TodayQuery(u)
    \/ \E u \in Users : OnDateQuery(u)
    \/ \E u \in Users : HelpQuery(u)
    \/ \E u \in Users : CancelTrigger(u)
    \/ Tick

Spec == Init /\ [][Next]_vars

\* ------------------------------------------------- the functions on their own

\* date.strftime('%d.%m.%Y') where the C library's %Y pads the year to four digits
strftime_dmY_padded(dt) ==
    zfill(str(dt.day), 2) \o <<".">> \o zfill(str(dt.month), 2) \o <<".">>
        \o zfill(str(dt.year), 4)

\* how many days after the birth date a target of calc_biorhythm may lie here
MaxDays == 60

\* the dates of the years the targets lie in
Calendar ==
    { dt \in [year : 2023..2024, month : 1..12, day : 1..31] :
          valid_date(dt.year, dt.month, dt.day) }

\* the date k days after dt
days_after(dt, k) == CHOOSE t \in Calendar : days_between(t, dt) = k

\* birth dates handed to calc_biorhythm
BirthDates == {Date(2023, 12, 31), Date(2024, 1, 5), Date(2024, 2, 29)}

\* the parts the texts handed to parse_date are put together from
DayParts ==
    { <<"0", "5">>, <<"5">>, <<" ", "5">>, <<"2", "9">>, <<"3", "0">>, <<"3", "1">>,
      <<"3", "2">>, <<"0", "0">> }

MonthParts ==
    { <<"0", "2">>, <<"2">>, <<"0", "4">>, <<"1", "2">>, <<"1", "3">>, <<"0", "0">> }

YearParts ==
    { <<"2", "0", "2", "4">>, <<"2", "0", "2", "3">>, <<"0", "9", "9", "9">>,
      <<"0", "0", "0", "0">>, <<"9", "9", "9">>, <<"2", "0", "2", "4", "0">> }

Before == { <<>>, <<" ">> }

After == { <<>>, <<"\n">>, <<"x">> }

\* the texts handed to parse_date: day.month.year and year-month-day of the parts,
\* with and without white space and a stray character around them, and texts of
\* neither shape
ParseTexts ==
    { b \o d \o <<".">> \o m \o <<".">> \o y \o a :
          b \in Before, d \in DayParts, m \in MonthParts, y \in YearParts, a \in After }
    \cup
    { b \o y \o <<"-">> \o m \o <<"-">> \o d \o a :
          b \in Before, d \in DayParts, m \in MonthParts, y \in YearParts, a \in After }
    \cup
    { <<>>, <<" ">>, <<"n", "o", "t", " ", "a", " ", "d", "a", "t", "e">>,
      <<"0", "5", "-", "0", "2", "-", "2", "0", "2", "4">>,
      <<"2", "0", "2", "4", ".", "0", "2", ".", "0", "5">>,
      <<"0", "5", ".", "0", "2", ".", "2", "0", "2", "4", " ", "x">>,
      <<"0", "5", ".", "0", "2", ".">>,
      <<"0", "5", ".", " ", "2", ".", "2", "0", "2", "4">> }

\* parse_date has returned res for text, and a date it returned is shown with
\* strftime('%d.%m.%Y') as at line 95: the year below 1000 comes out padded or
\* not, as the platform's C library has it
Parsed(text, res) ==
    /\ \E shown \in (IF res.ok
                      THEN {strftime_dmY(res.date), strftime_dmY_padded(res.date)}
                      ELSE {None}) :
           probe' = [kind |-> "parsed", text |-> text, res |-> res, shown |-> shown]
    /\ UNCHANGED <<conversations, user_data, clock, onboarded, last>>

\* parse_date applied to a text
Parse ==
    /\ probe = Idle
    /\ \E text \in ParseTexts : Parsed(text, parse_date(text))

\* calc_biorhythm applied to a birth date and a target on or after it
Compute ==
    /\ probe = Idle
    /\ \E b \in BirthDates : \E k \in 0..MaxDays :
           probe' = [kind |-> "computed", birth |-> b, target |-> days_after(b, k),
                     bio |-> calc_biorhythm(b, days_after(b, k), NoDate)]
    /\ UNCHANGED <<conversations, user_data, clock, onboarded, last>>

\* the next application starts afresh
Reset ==
    /\ probe # Idle
    /\ probe' = Idle
    /\ UNCHANGED <<conversations, user_data, clock, onboarded, last>>

FunctionNext == Parse \/ Compute \/ Reset

FunctionSpec == Init /\ [][FunctionNext]_vars

\* ------------------------------------------------------------------ claims

\* The vocabulary of the claims, read off the update handled last: the session
\* is AWAITING_BIRTHDATE when the conversation is in ASK_DOB, READY when there
\* is no conversation and a birth date is stored, absent when there is neither.
Awaiting(convs, u) == u \in DOMAIN convs /\ convs[u] = ASK_DOB

PreAwaiting == Awaiting(last.pre_conv, last.user)

PostAwaiting == Awaiting(conversations, last.user)

PreDob == dict_get(last.pre_data, "dob")

PostDob == dict_get(user_data[last.user], "dob")

Replies == last.result.replies

\* exactly one reply, of this kind
RepliedWith(kind) == Len(Replies) = 1 /\ Replies[1].kind = kind

SessionUnchanged == PostDob = PreDob /\ (PostAwaiting <=> PreAwaiting)

\* the three values of a report, without its header
Values(report) ==
    <<report.physical, report.emotional, report.intellectual>>

\* the report for target of the reading at day count days
ReportFor(target, days) ==
    [header |-> strftime_dmY(target),
     physical |-> sign(rounded_sin(days, 23)),
     emotional |-> sign(rounded_sin(days, 28)),
     intellectual |-> sign(rounded_sin(days, 33))]

\* C1 (as claimed): a /start in any session state leaves the session in
\* AWAITING_BIRTHDATE and is answered with the disclaimer and the prompt for the
\* birth date.
C1_StartAlwaysPrompts ==
    last.update.type = "start" => PostAwaiting /\ RepliedWith("start")

\* C2 (as claimed): a text the date parser accepts, received while
\* AWAITING_BIRTHDATE, is stored as the birth date, makes the session READY and is
\* answered with today's reading for that birth date and the list of commands.
C2_AcceptedDateCompletesOnboarding ==
    (last.update.type = "text" /\ PreAwaiting /\ parse_date(last.update.text).ok) =>
        /\ PostDob = isoformat(parse_date(last.update.text).date)
        /\ ~PostAwaiting
        /\ RepliedWith("dob_saved")
        /\ \E t \in Range(last.result.reads) :
               Values(Replies[1].bio) =
                   Values(ReportFor(t, days_between(t, parse_date(last.update.text).date)))

\* C3: a text the date parser does not recognize, received while
\* AWAITING_BIRTHDATE, leaves the session in AWAITING_BIRTHDATE with the birth
\* date as it was (absent or the stored one) and is answered with the retry prompt,
\* however many such texts came before.
C3_UnrecognizedTextKeepsAwaiting ==
    (last.update.type = "text" /\ PreAwaiting /\ ~parse_date(last.update.text).ok) =>
        /\ PostAwaiting
        /\ user_data[last.user] = last.pre_data
        /\ RepliedWith("retry")
        /\ ~last.result.raised

\* C3 witness: an unrecognized text was answered with the retry prompt while a
\* birth date from an earlier onboarding was stored, right after another
\* unrecognized text of the same user
C3_Witness ==
    /\ last.update.type = "text" /\ PreAwaiting /\ ~parse_date(last.update.text).ok
    /\ PreDob # None /\ PostDob = PreDob
    /\ last.repeat
    /\ RepliedWith("retry")

\* C4 (as claimed): no error leaves a handler, whatever the session state, the
\* event and its payload: every error becomes a reply.
C4_NoErrorEscapes == ~last.result.raised

\* C5 (as claimed): /cancel while AWAITING_BIRTHDATE is answered with the
\* confirmation and leaves the birth date alone: the session is READY with the
\* same birth date if a completed onboarding stored one, and has no birth date
\* otherwise.
C5_CancelKeepsBirthDate ==
    (last.update.type = "cancel" /\ PreAwaiting) =>
        /\ RepliedWith("cancelled")
        /\ ~PostAwaiting
        /\ PostDob = PreDob
        /\ (last.pre_onboarded => PostDob # None)
        /\ (~last.pre_onboarded => PostDob = None)

\* C6 (as claimed): /today never changes the session; it is answered with the
\* prompt to run the onboarding when no birth date is known, and with the
\* reading of compute(birthDate, today()) otherwise.
C6_TodayQueryAnswers ==
    last.update.type = "today" =>
        /\ SessionUnchanged
        /\ (PreDob = None => RepliedWith("need_dob"))
        /\ (PreDob # None =>
               /\ RepliedWith("bio")
               /\ \E t \in Range(last.result.reads) :
                      Values(Replies[1].bio) =
                          Values(ReportFor(t, days_between(t, fromisoformat(PreDob)))))

\* a YYYY-MM-DD rendering of a calendar date: four, two and two digits
StrictYMD(text) ==
    /\ Len(text) = 10
    /\ \A i \in {1, 2, 3, 4, 6, 7, 9, 10} : IsDigit(text[i])
    /\ text[5] = "-" /\ text[8] = "-"
    /\ valid_date(int(SubSeq(text, 1, 4)), int(SubSeq(text, 6, 7)),
                  int(SubSeq(text, 9, 10)))

\* C7 (as claimed): /on without an argument is answered with the usage hint and
\* /on with an argument that is no valid YYYY-MM-DD date with the parse-error
\* hint, whether or not a birth date is known; the prompt to run the onboarding
\* is given only for a well-formed argument with no birth date known.
C7_ArgumentErrorsInEveryState ==
    last.update.type = "on" =>
        /\ (last.update.args = <<>> => RepliedWith("usage"))
        /\ (last.update.args # <<>> /\ ~StrictYMD(last.update.args[1]) =>
               RepliedWith("bad_date"))
        /\ (RepliedWith("need_dob") =>
               /\ last.update.args # <<>>
               /\ StrictYMD(last.update.args[1])
               /\ PreDob = None)

\* C7 (amended): with no birth date known, /on is answered with the prompt to
\* run the onboarding whatever its argument; with a birth date known, /on
\* without an argument is answered with the usage hint, and /on with an argument
\* that strptime does not accept for %Y-%m-%d (it accepts a month and a day
\* without their leading zero) with the parse-error hint, and only those are.
C7_ArgumentErrorsOnceBirthDateKnown ==
    last.update.type = "on" =>
        /\ (PreDob = None => RepliedWith("need_dob"))
        /\ (PreDob # None =>
               /\ (last.update.args = <<>> <=> RepliedWith("usage"))
               /\ (last.update.args # <<>> /\ ~strptime(last.update.args[1], FMT_YMD).ok
                       <=> RepliedWith("bad_date"))
               /\ ~RepliedWith("need_dob"))

\* C7 witness: with a birth date known, a malformed argument was answered with
\* the parse-error hint
C7_Witness ==
    /\ last.update.type = "on" /\ PreDob # None
    /\ last.update.args # <<>> /\ ~StrictYMD(last.update.args[1])
    /\ RepliedWith("bad_date")

\* C8: /on with a well-formed target and a known birth date is answered with the
\* InvalidRange message exactly when the target is before the birth date, and
\* otherwise with the report for the target at day count target - birthDate (a
\* target equal to the birth date gets a report); the session is unchanged.
C8_OnDateReadingOrRange ==
    (/\ last.update.type = "on" /\ PreDob # None
     /\ last.update.args # <<>> /\ strptime(last.update.args[1], FMT_YMD).ok) =>
        LET target == strptime(last.update.args[1], FMT_YMD).date
            days == days_between(target, fromisoformat(PreDob))
        IN  /\ (days < 0 <=> RepliedWith("before_birth"))
            /\ (days >= 0 =>
                   Replies = << [kind |-> "bio", bio |-> ReportFor(target, days)] >>)
            /\ SessionUnchanged
            /\ ~last.result.raised

\* C8 witness: a target equal to the stored birth date was answered with a report
C8_Witness ==
    /\ last.update.type = "on" /\ PreDob # None /\ last.update.args # <<>>
    /\ strptime(last.update.args[1], FMT_YMD).ok
    /\ strptime(last.update.args[1], FMT_YMD).date = fromisoformat(PreDob)
    /\ RepliedWith("bio")

\* C9: /help in any session state leaves the birth date and the onboarding
\* state as they were and is always answered with the same text.
C9_HelpIsStateless ==
    last.update.type = "help" =>
        /\ SessionUnchanged
        /\ user_data[last.user] = last.pre_data
        /\ Replies = << [kind |-> "help"] >>
        /\ ~last.result.raised

\* C9 witness: /help was answered during an onboarding, right after another
\* /help in the same session
C9_Witness ==
    /\ last.update.type = "help" /\ PreAwaiting /\ last.repeat
    /\ RepliedWith("help")

\* the session of the user of the update handled last, after it
PostSession == Session(conv_of(conversations, last.user), user_data[last.user])

\* C10: for a fixed date, the same update handled from the same session
\* (onboarding state and birth date) gives the same new session and the same
\* reply: two updates handled one after the other, of one user or of two, that
\* agree in session, content and date agree in their outcome.
C10_Deterministic ==
    [][ (/\ last.user \in Users
         /\ SameInput(last, last'.update, last'.pre_conv, last'.pre_data,
                      last'.result.reads))
        => (/\ last'.result.replies = last.result.replies
            /\ last'.result.raised = last.result.raised
            /\ PostSession' = PostSession) ]_vars

\* C10 witness: a recognized birth date was handled for one user right after
\* the same text from the same session state on the same date
C10_Witness ==
    /\ last.repeat
    /\ last.update.type = "text" /\ PreAwaiting /\ RepliedWith("dob_saved")

\* what the handler picked from the sender's own conversation entry gives on the
\* sender's own user_data, for the update and the date reads of l
OwnResult(l) ==
    run_handler(handler_for(l.pre_conv, l.user, l.update), l.update, l.pre_data,
                IF l.result.reads = <<>> THEN NoDate ELSE l.result.reads[1],
                IF l.result.reads = <<>> THEN NoDate
                ELSE l.result.reads[Len(l.result.reads)])

\* C11: a step that handles an update of one user leaves the birth date, the
\* user_data and the conversation entry of every other user as they were, and
\* what it replies is what the handler gives on the sender's own conversation
\* entry and user_data alone, whatever the other user's session is.
C11_UsersDoNotInterfere ==
    [][ /\ \A v \in Users :
              v # last'.user =>
                  /\ user_data'[v] = user_data[v]
                  /\ conv_of(conversations', v) = conv_of(conversations, v)
        /\ (last' # last => last'.result = OwnResult(last')) ]_vars

\* C11 witness: u2 completed its onboarding while u1 was in a second onboarding
\* with another birth date stored
C11_Witness ==
    /\ last.user = "u2" /\ last.handler = "set_dob" /\ RepliedWith("dob_saved")
    /\ Awaiting(conversations, "u1")
    /\ dict_get(user_data["u1"], "dob") # None
    /\ dict_get(user_data["u1"], "dob") # PostDob

ZeroText == <<"0", ".", "0">>

\* C13: calc_biorhythm of a birth date and that same date is 0.0 for the three
\* cycles, for every stored birth date, and /on with the stored birth date as
\* its target is answered with a report of 0.0 for the physical, the emotional
\* and the intellectual cycle.
C13_ZeroOnBirthDate ==
    /\ \A u \in Users :
           dict_get(user_data[u], "dob") # None =>
               calc_biorhythm(fromisoformat(dict_get(user_data[u], "dob")),
                              fromisoformat(dict_get(user_data[u], "dob")), NoDate)
                   = [ok |-> TRUE, physical |-> Float(0, FALSE),
                      emotional |-> Float(0, FALSE), intellectual |-> Float(0, FALSE)]
    /\ (/\ last.update.type = "on" /\ PreDob # None /\ last.update.args # <<>>
        /\ strptime(last.update.args[1], FMT_YMD).ok
        /\ isoformat(strptime(last.update.args[1], FMT_YMD).date) = PreDob) =>
           Replies = << [kind |-> "bio",
                         bio |-> [header |-> strftime_dmY(fromisoformat(PreDob)),
                                  physical |-> ZeroText, emotional |-> ZeroText,
                                  intellectual |-> ZeroText]] >>

\* C13 witness: /on with the stored birth date as its target was answered with
\* a report whose physical value is 0.0
C13_Witness ==
    /\ last.update.type = "on" /\ PreDob # None /\ last.update.args # <<>>
    /\ strptime(last.update.args[1], FMT_YMD).ok
    /\ isoformat(strptime(last.update.args[1], FMT_YMD).date) = PreDob
    /\ RepliedWith("bio") /\ Replies[1].bio.physical = ZeroText

\* the shape DD.MM.YYYY: two digits, two digits and four digits between dots
DMYForm(text) ==
    /\ Len(text) = 10
    /\ \A i \in {1, 2, 4, 5, 7, 8, 9, 10} : IsDigit(text[i])
    /\ text[3] = "." /\ text[6] = "."

\* the calendar date a text of the shape DD.MM.YYYY names, if it names one
DMYValid(text) ==
    valid_date(int(SubSeq(text, 7, 10)), int(SubSeq(text, 4, 5)), int(SubSeq(text, 1, 2)))

\* a DD.MM.YYYY rendering of a calendar date
StrictDMY(text) == DMYForm(text) /\ DMYValid(text)

\* C14 (as claimed): a text of the shape DD.MM.YYYY that parse_date accepts comes
\* out of strftime('%d.%m.%Y') of the parsed date as it went in, and a text of
\* that shape that names no calendar date (31.02.2024) is not accepted.
C14_RoundTrip ==
    (probe.kind = "parsed" /\ DMYForm(probe.text)) =>
        /\ (probe.res.ok => probe.shown = probe.text)
        /\ (~DMYValid(probe.text) => ~probe.res.ok)

\* two floats are equal as numbers: 0.0 == -0.0
FloatEq(a, b) == a.h = b.h

\* C15: for a target on or after the birth date, the physical value of
\* calc_biorhythm equals the one for the target 23 days later, the emotional
\* value the one 28 days later, the intellectual value the one 33 days later.
C15_Periodic ==
    probe.kind = "computed" =>
        /\ probe.bio.ok
        /\ FloatEq(probe.bio.physical,
                   calc_biorhythm(probe.birth, days_after(probe.target, 23), NoDate).physical)
        /\ FloatEq(probe.bio.emotional,
                   calc_biorhythm(probe.birth, days_after(probe.target, 28), NoDate).emotional)
        /\ FloatEq(probe.bio.intellectual,
                   calc_biorhythm(probe.birth, days_after(probe.target, 33), NoDate).intellectual)

\* C15 witness: a reading more than one period of every cycle after the birth
\* date, with none of its values zero
C15_Witness ==
    /\ probe.kind = "computed"
    /\ days_between(probe.target, probe.birth) > 33
    /\ probe.bio.physical.h # 0 /\ probe.bio.emotional.h # 0
    /\ probe.bio.intellectual.h # 0

\* the session is READY: no onboarding under way and a birth date stored
Ready(awaiting, dob) == ~awaiting /\ dob # None

Dob(u) == dict_get(user_data[u], "dob")

\* C17: a stored birth date is never removed, and the birth date of a user
\* changes only in the step that handles a text of that user which parse_date
\* accepts while the session is AWAITING_BIRTHDATE, to the date parsed; /start,
\* /cancel, /today, /on, /help and an unrecognized text leave it as it was.
C17_BirthDateChangesOnlyOnAcceptedText ==
    [][ \A u \in Users :
            /\ (Dob(u) # None => Dob(u)' # None)
            /\ (Dob(u)' # Dob(u) =>
                   /\ last'.user = u /\ last'.update.type = "text"
                   /\ Awaiting(conversations, u)
                   /\ parse_date(last'.update.text).ok
                   /\ Dob(u)' = isoformat(parse_date(last'.update.text).date)) ]_vars

\* C17 witness: a second onboarding has replaced the stored birth date by another
C17_Witness ==
    /\ last.update.type = "text" /\ PreAwaiting /\ PreDob # None
    /\ PostDob # None /\ PostDob # PreDob

\* a day of the month as strptime's %d takes it: 1 to 31 in one or two
\* characters, a one-digit day alone or after a zero or a blank
DayText(q) ==
    \/ Len(q) = 1 /\ q[1] \in NonZeroDigit
    \/ /\ Len(q) = 2
       /\ \/ IsDigit(q[1]) /\ IsDigit(q[2]) /\ int(q) \in 1..31
          \/ q[1] = " " /\ q[2] \in NonZeroDigit

\* a month as %m takes it: 1 to 12 in one or two digits
MonthText(q) ==
    \/ Len(q) = 1 /\ q[1] \in NonZeroDigit
    \/ Len(q) = 2 /\ IsDigit(q[1]) /\ IsDigit(q[2]) /\ int(q) \in 1..12

\* a year as %Y takes it: four digits
YearText(q) == Len(q) = 4 /\ \A i \in 1..4 : IsDigit(q[i])

\* the date three such fields name, if it is a calendar date
FieldsDate(y, m, d) ==
    IF YearText(y) /\ MonthText(m) /\ DayText(d) /\ valid_date(int(y), int(m), int(d))
    THEN {Date(int(y), int(m), int(d))}
    ELSE {}

\* the date t names read as day.month.year with a day of dl and a month of ml
\* characters
ReadDMY(t, dl, ml) ==
    IF Len(t) = dl + ml + 6 /\ t[dl + 1] = "." /\ t[dl + ml + 2] = "."
    THEN FieldsDate(SubSeq(t, dl + ml + 3, dl + ml + 6), SubSeq(t, dl + 2, dl + ml + 1),
                    SubSeq(t, 1, dl))
    ELSE {}

\* the same for year-month-day
ReadYMD(t, dl, ml) ==
    IF Len(t) = dl + ml + 6 /\ t[5] = "-" /\ t[ml + 6] = "-"
    THEN FieldsDate(SubSeq(t, 1, 4), SubSeq(t, 6, ml + 5),
                    SubSeq(t, ml + 7, ml + dl + 6))
    ELSE {}

\* the dates text names in either format
Readings(t) ==
    UNION { ReadDMY(t, dl, ml) \cup ReadYMD(t, dl, ml) : dl \in 1..2, ml \in 1..2 }

\* C18 (as claimed): parse_date returns a date exactly when the trimmed text is
\* a DD.MM.YYYY or a YYYY-MM-DD rendering of a calendar date (two digits for the
\* day and the month, four for the year), and then the date it names.
C18_StrictRenderingsOnly ==
    probe.kind = "parsed" =>
        /\ probe.res.ok <=> (StrictDMY(strip(probe.text)) \/ StrictYMD(strip(probe.text)))
        /\ probe.res.ok => probe.res.date \in Readings(strip(probe.text))

\* C18 (amended): parse_date returns a date exactly when the whole trimmed text
\* is day.month.year or year-month-day with a year of four digits and a month
\* and a day of one or two characters (the leading zero of a one-digit month or
\* day may be missing, and a blank may stand for that of the day) that name a
\* calendar date, and then the date it returns is the one the text names.
C18_WholeTextInEitherFormat ==
    probe.kind = "parsed" =>
        /\ probe.res.ok <=> Readings(strip(probe.text)) # {}
        /\ probe.res.ok => Readings(strip(probe.text)) = {probe.res.date}

\* C18 witness: a text with white space around it and a day and a month without
\* their leading zero was parsed to the date it names
C18_Witness ==
    /\ probe.kind = "parsed" /\ probe.res.ok
    /\ strip(probe.text) # probe.text
    /\ ~StrictDMY(strip(probe.text)) /\ ~StrictYMD(strip(probe.text))
    /\ Len(strip(probe.text)) = 8

\* C19 (as claimed): the header of the report /today sends, and of the one that
\* completes the onboarding, names the date the three values were computed
\* for, the first date.today() of the handler.
C19_HeaderNamesComputedDate ==
    (\/ last.update.type = "today" /\ RepliedWith("bio")
     \/ last.update.type = "text" /\ RepliedWith("dob_saved")) =>
        Replies[1].bio.header = strftime_dmY(last.result.reads[1])

====
